---- MODULE Spec2Model ----
(***************************************************************************)
(* State-machine model of the image crawlers of ac_spider:                 *)
(*   daikin_ac_spider.py  process_single_product, wait_swiper_change,      *)
(*                        download_image                                   *)
(*   haier_ac_spider.py   download_images_via_api                          *)
(*   midea_ac_spider.py   download, unique_save_path, crawl_one_product,   *)
(*                        deduplicate_images                               *)
(* Time is counted in ticks of one poll interval (time.sleep(0.3)).        *)
(***************************************************************************)
EXTENDS Integers, Sequences, FiniteSets, TLC

\* ------------------------------------------------------------------ bounds
\* largest number of images one snapshot of the swiper holds
MaxAssets == 2
\* CLICK_WAIT_SECONDS counted in poll intervals
TimeoutTicks == 3
\* longest time wait_page_ready takes, in poll intervals
ReadyMax == 1
\* the 3.0 s window of has_swiper_or_color_quick counted in its 0.25 s polls
ProbeWindow == 2

\* ------------------------------------------------------------ the file tree
\* A file is [name, url, complete]: the asset whose body it holds and whether
\* the body was written completely.  fs holds at most one file per name.
NoFile == [name |-> "", url |-> "", complete |-> FALSE]

Exists(fsys, n) == \E e \in fsys : e.name = n

FileAt(fsys, n) == IF Exists(fsys, n) THEN CHOOSE e \in fsys : e.name = n ELSE NoFile

\* open(n, "wb") followed by writing: the file at n is replaced
WriteFile(fsys, n, u, whole) ==
    {e \in fsys : e.name # n} \cup {[name |-> n, url |-> u, complete |-> whole]}

\* os.replace(src, dst)
ReplaceFile(fsys, src, dst) ==
    LET f == FileAt(fsys, src)
    IN  {e \in fsys : e.name # src /\ e.name # dst}
            \cup {[name |-> dst, url |-> f.url, complete |-> f.complete]}

\* ------------------------------------------------------------------- URLs
\* A URL is [form, dir, stem, ext]: directory, file stem and extension of its
\* path, and how it is written: "abs" (https://host/dir/stem.ext), "rel"
\* (//host/dir/stem.ext) or "dslash" (https://host//dir/stem.ext).
Url(f, d, s, e) == [form |-> f, dir |-> d, stem |-> s, ext |-> e]

UrlStr(u) ==
    (CASE u.form = "rel" -> "//host/" [] u.form = "dslash" -> "https://host//"
       [] OTHER -> "https://host/") \o u.dir \o "/" \o u.stem \o u.ext

\* the asset URLs the Daikin page can expose
DaikinUrls == { Url("abs", "img", "a", ".jpg"), Url("abs", "img", "c", ".svg") }

\* str.lower() on the extensions that occur
Lower(e) == IF e = ".PNG" THEN ".png" ELSE e

ImageExts == {".jpg", ".jpeg", ".png", ".gif", ".webp", ".bmp"}

guess_ext_from_url(u) ==
    LET ext == Lower(u.ext)
    IN  IF ext \in ImageExts THEN ext ELSE ".jpg"

\* f"{n:03d}" for the numbers that occur
Pad3(n) == "00" \o <<"0", "1", "2", "3", "4", "5", "6", "7", "8", "9">>[n + 1]

VariantDir(v) == "variant_" \o Pad3(v)

\* os.path.join(variant_dir, f"variant_{v:03d}_{i:03d}{ext}")
DestPath(v, i, ext) == VariantDir(v) \o "/variant_" \o Pad3(v) \o "_" \o Pad3(i) \o ext

\* ordered lists without repetition, as collect_swiper_image_urls returns them
RECURSIVE SeqsNoDup(_, _)
SeqsNoDup(S, n) ==
    IF n = 0 THEN {<<>>}
    ELSE LET shorter == SeqsNoDup(S, n - 1)
         IN  shorter \cup {Append(s, x) : s \in {q \in shorter : Len(q) = n - 1}, x \in S}

Range(s) == {s[j] : j \in 1..Len(s)}

NoDup(s) == \A j, k \in 1..Len(s) : j # k => s[j] # s[k]

Snapshots == {s \in SeqsNoDup(DaikinUrls, MaxAssets) : NoDup(s)}

Locations == {"detail", "detail?color"}

\* the colour controls of the product page; find_color_elements returns a list
\* of some of them
ColorControls == {"span.color", "a[href*='?color=']"}

MaxColors == Cardinality(ColorControls)

\* --------------------------------------------------------------- variables
\* process_single_product and wait_swiper_change (daikin_ac_spider.py)
VARIABLES
    pc,                 \* position in process_single_product
    current_url,        \* driver.current_url, the page's location
    probe_t,            \* polls has_swiper_or_color_quick has made
    base_swiper_urls,   \* the default (unclicked) snapshot
    color_elems,        \* len(color_elems)
    idx,                \* index of the colour control being processed
    prev_url,           \* location captured before the click
    prev_swiper_urls,   \* snapshot captured before the click
    mode,               \* wait_swiper_change: "main" loop or "sub" wait after navigation
    elapsed,            \* time.time() - t0
    t1,                 \* value of elapsed when the sub-wait started
    cur_urls,           \* what wait_swiper_change returned
    variant_idx,        \* variant index the files being saved are named with
    todo,               \* the list being downloaded
    seq_i,              \* 1-based position in todo of the next download
    fs,                 \* the files on disk
    dirs,               \* the directories ensure_dir created
    quiet,              \* history: no poll of this call saw the assets or the location differ
    obs,                \* history: snapshots the polls of this call observed, in order
    locs,               \* history: the page's location at each poll of the main loop
    tracing,            \* obs and locs are recorded (the detector's own specification)
    \* one download batch, run twice (download_image / download_images_via_api / download)
    dl_kind,            \* which crawler's save loop runs
    dl_urls,            \* the asset list of the batch
    dl_run,             \* 1: first run, 2: the re-run with the same list and destination
    dl_pc,              \* "next": between assets, "fetch": attempts running, "done"
    dl_i,               \* 1-based position of the asset in dl_urls
    dl_dest,            \* destination path resolved for the asset
    attempt,            \* attempt number of the retry loop
    now_ms,             \* int(time.time() * 1000)
    fetches,            \* history: requests sent in each run
    gave_up,            \* history: an asset of the first run was not saved
    files1,             \* history: the files on disk when the first run ended
    dl_log,             \* history: [run, i, attempts, saved] of every asset gone through
    slept,              \* history: the time.sleep delays (ms) of the asset's retry loop
    \* midea: deduplicate_images
    tree,               \* the image files under root_dir in the order of os.walk
    present,            \* positions in tree of the files still on disk
    do_perceptual,
    dry_run,
    dd_pc,              \* "md5", "rm", "ahash", "done"
    dd_k,               \* position of the running loop
    md5_map,            \* digest -> position of the first file with it (0: none)
    exact_dups,
    order,              \* the paths of size_buckets, bucket after bucket
    seen_hashes,        \* <<fingerprint, position>> of the files kept in stage 2
    rm_failed,          \* history: an os.remove raised
    \* the main loop of a crawler over its products
    main_kind,          \* which crawler's main() runs
    main_pc,            \* "loop", "done", "aborted": an exception left the loop
    prod_i,             \* 1-based position of the product in the list
    outcomes,           \* history: how the processing of each attempted product ended
    passes,             \* history: the passes over the output tree main() ran, in order
    \* midea: remove_empty_dirs
    tdirs,              \* the directories that exist: root_dir is <<>>, a/c is <<"a", "c">>
    has_file,           \* the directories that hold at least one file
    walk,               \* what os.walk(root_dir, topdown=False) yields, in order
    w_i,                \* position of the loop in walk
    remove_root,
    rd_pc,              \* "walk", "done"
    rmdir_failed,       \* history: an os.rmdir or os.listdir raised
    \* haier: the thumbnail loop of collect_images_in_scope
    thumbs,             \* len(thumbs)
    th_i,               \* 1-based position of the thumbnail in thumbs
    th_pc,              \* "before", "click", "poll", "collect", "done"
    before,             \* the signature taken before the click
    after,              \* the signature of the last poll
    sig_polls,          \* signature polls made after the click
    th_log,             \* history: [clicked, polls, changed, collected] of each thumbnail
    \* midea: collect_product_links
    start_url,
    cur,                \* the list URL to visit next, or None
    seen_pages,
    pages,              \* iterations the main loop has gone on from
    lp_pc,              \* "head", "next", "supp", "done", "aborted"
    lp_loc,             \* driver.current_url
    sp_i,               \* 1-based position in candidates
    got,                \* history: the URLs driver.get was called with, in order
    scraped,            \* history: the locations whose links were collected
    nav_last,           \* history: where the latest click of find_next_page_url led
    \* haier: main
    page_index,
    collected_all,
    links,              \* the product links of the list page at hand
    new_links,
    nl_i,               \* 1-based position of the loop in new_links
    hm_pc,              \* "list", "product", "done"
    times,              \* history: how often each product was processed
    last_outcome,       \* history: how the latest processing of each product ended
    \* midea: main, crawl_one_product and download, counting
    len_links,          \* len(product_links)
    link_i,             \* 1-based position of main's loop in product_links
    tl_pc,              \* "main", "download", "done", "aborted"
    img_n,              \* len(img_urls) of the product at hand
    img_j,              \* images of the product the loop is through with
    dl_attempt,         \* "attempt" of download's retry loop
    saved,              \* crawl_one_product's counter
    total_imgs,         \* main's sum
    files_saved,        \* history: the downloads that wrote their file to the end
    reported            \* what main printed: <<>> or <<the total>>

pageVars == <<current_url>>
prodVars == <<probe_t, base_swiper_urls, color_elems, idx>>
capVars == <<prev_url, prev_swiper_urls>>
waitVars == <<mode, elapsed, t1, quiet, obs, locs>>
saveVars == <<variant_idx, todo, seq_i>>
diskVars == <<fs, dirs>>

dlVars ==
    <<dl_kind, dl_urls, dl_run, dl_pc, dl_i, dl_dest, attempt, now_ms, fetches, gave_up,
      files1, dl_log, slept>>

ddVars ==
    <<tree, present, do_perceptual, dry_run, dd_pc, dd_k, md5_map, exact_dups, order,
      seen_hashes, rm_failed>>

mainVars == <<main_kind, main_pc, prod_i, outcomes, passes>>

\* the variables of the specifications that stand beside the crawl, the
\* download batch and the deduplication
dirVars == <<tdirs, has_file, walk, w_i, remove_root, rd_pc, rmdir_failed>>

thumbVars == <<thumbs, th_i, th_pc, before, after, sig_polls, th_log>>

\* the variables of the specifications added after the first four
listVars == <<start_url, cur, seen_pages, pages, lp_pc, lp_loc, sp_i, got, scraped, nav_last>>

haierVars ==
    <<page_index, collected_all, links, new_links, nl_i, hm_pc, times, last_outcome>>

totalVars ==
    <<len_links, link_i, tl_pc, img_n, img_j, dl_attempt, saved, total_imgs, files_saved,
      reported>>

moreVars == <<thumbVars, listVars, haierVars, totalVars>>

restVars == <<mainVars, dirVars, moreVars>>

\* what no action of process_single_product changes
notDaikin == <<tracing, dlVars, ddVars, restVars>>

\* what no action of a download batch changes
notDl == <<pc, pageVars, prodVars, capVars, waitVars, cur_urls, saveVars, dirs, tracing,
      ddVars, restVars>>

\* what no action of deduplicate_images changes
notDd ==
    <<pc, pageVars, prodVars, capVars, waitVars, cur_urls, saveVars, diskVars, tracing,
      dlVars, restVars>>

vars ==
    <<pc, pageVars, prodVars, capVars, waitVars, cur_urls, saveVars, diskVars, tracing,
      dlVars, ddVars, restVars>>

\* the variables of the crawl, the download batch and the deduplication
crawlVars ==
    <<pc, pageVars, prodVars, capVars, waitVars, cur_urls, saveVars, diskVars, tracing,
      dlVars, ddVars>>

\* ------------------------------------------------- daikin: download_image
DownloadOutcomes == {"saved", "request_failed", "copy_failed"}

\* requests.get / raise_for_status fail before anything is opened; copyfileobj
\* fails after open(tmp, "wb"); os.replace moves the finished body into place.
download_image(fsys, u, dest, outcome) ==
    LET tmp == dest \o ".part"
    IN  CASE outcome = "saved" ->
                ReplaceFile(WriteFile(fsys, tmp, UrlStr(u), TRUE), tmp, dest)
          [] outcome = "copy_failed" -> WriteFile(fsys, tmp, UrlStr(u), FALSE)
          [] OTHER -> fsys

\* variant_idx = idx + 1
VariantIndex(i) == i + 1

\* the per-variant "seen / ordered" loop
RECURSIVE Dedup(_)
Dedup(s) ==
    IF s = <<>> THEN <<>>
    ELSE LET front == Dedup(SubSeq(s, 1, Len(s) - 1))
             x == s[Len(s)]
         IN  IF x \in Range(front) THEN front ELSE Append(front, x)

\* no download batch of the harness is running
DlIdle ==
    /\ dl_kind = "none"
    /\ dl_urls = <<>>
    /\ dl_run = 1
    /\ dl_pc = "done"
    /\ dl_i = 1
    /\ dl_dest = ""
    /\ attempt = 0
    /\ now_ms = 0
    /\ fetches = <<0, 0>>
    /\ gave_up = FALSE
    /\ files1 = {}
    /\ dl_log = {}
    /\ slept = <<>>

\* deduplicate_images is not running
DdIdle ==
    /\ tree = <<>>
    /\ present = {}
    /\ do_perceptual = FALSE
    /\ dry_run = FALSE
    /\ dd_pc = "done"
    /\ dd_k = 1
    /\ md5_map = <<>>
    /\ exact_dups = <<>>
    /\ order = <<>>
    /\ seen_hashes = <<>>
    /\ rm_failed = FALSE

\* no main loop is running
MainIdle ==
    /\ main_kind = "none"
    /\ main_pc = "done"
    /\ prod_i = 1
    /\ outcomes = <<>>
    /\ passes = <<>>

\* remove_empty_dirs is not running
DirsIdle ==
    /\ tdirs = {<<>>}
    /\ has_file = {}
    /\ walk = <<>>
    /\ w_i = 1
    /\ remove_root = FALSE
    /\ rd_pc = "done"
    /\ rmdir_failed = FALSE

\* the thumbnail loop is not running
ThumbsIdle ==
    /\ thumbs = 0
    /\ th_i = 1
    /\ th_pc = "done"
    /\ before = ""
    /\ after = ""
    /\ sig_polls = 0
    /\ th_log = <<>>

\* what stands for None
None == [page |-> 0, q |-> ""]

\* collect_product_links is not running
ListIdle ==
    /\ start_url = None
    /\ cur = None
    /\ seen_pages = {}
    /\ pages = 0
    /\ lp_pc = "done"
    /\ lp_loc = None
    /\ sp_i = 1
    /\ got = <<>>
    /\ scraped = {}
    /\ nav_last = None

\* the product URLs of the haier list pages
ProductUrls == {"p1", "p2", "p3"}

\* main() of the haier crawler is not running
HaierIdle ==
    /\ page_index = 1
    /\ collected_all = {}
    /\ links = <<>>
    /\ new_links = <<>>
    /\ nl_i = 1
    /\ hm_pc = "done"
    /\ times = [u \in ProductUrls |-> 0]
    /\ last_outcome = [u \in ProductUrls |-> "none"]

TotalIdle ==
    /\ len_links = 0
    /\ link_i = 1
    /\ tl_pc = "done"
    /\ img_n = 0
    /\ img_j = 0
    /\ dl_attempt = 0
    /\ saved = 0
    /\ total_imgs = 0
    /\ files_saved = 0
    /\ reported = <<>>

MoreIdle == ThumbsIdle /\ ListIdle /\ HaierIdle /\ TotalIdle

RestIdle == MainIdle /\ DirsIdle /\ MoreIdle

\* no product is being processed
DaikinIdle ==
    /\ pc = "done"
    /\ current_url = "detail"
    /\ probe_t = 0
    /\ base_swiper_urls = <<>>
    /\ color_elems = 0
    /\ idx = 0
    /\ prev_url = "detail"
    /\ prev_swiper_urls = <<>>
    /\ mode = "main"
    /\ elapsed = 0
    /\ t1 = 0
    /\ cur_urls = <<>>
    /\ variant_idx = 1
    /\ todo = <<>>
    /\ seq_i = 1
    /\ dirs = {}
    /\ quiet = TRUE
    /\ obs = <<>>
    /\ locs = <<>>
    /\ tracing = FALSE

\* ------------------------------------------ daikin: process_single_product
InitDaikin ==
    /\ pc = "open"
    /\ current_url = "detail"
    /\ probe_t = 0
    /\ base_swiper_urls = <<>>
    /\ color_elems = 0
    /\ idx = 0
    /\ prev_url = "detail"
    /\ prev_swiper_urls = <<>>
    /\ mode = "main"
    /\ elapsed = 0
    /\ t1 = 0
    /\ cur_urls = <<>>
    /\ variant_idx = 1
    /\ todo = <<>>
    /\ seq_i = 1
    /\ fs = {}
    /\ dirs = {}
    /\ quiet = TRUE
    /\ obs = <<>>
    /\ locs = <<>>
    /\ tracing = FALSE
    /\ DlIdle
    /\ DdIdle
    /\ RestIdle

\* driver.get(url); an exception skips the product
Open ==
    /\ pc = "open"
    /\ \E ok \in BOOLEAN : pc' = IF ok THEN "probe" ELSE "done"
    /\ UNCHANGED <<pageVars, prodVars, capVars, waitVars, cur_urls, saveVars,
                   diskVars, notDaikin>>

\* one poll of has_swiper_or_color_quick
Probe ==
    /\ pc = "probe"
    /\ probe_t < ProbeWindow
    /\ \E has_wrap \in BOOLEAN, n \in 0..MaxColors :
          IF has_wrap \/ n > 0
          THEN pc' = "collect" /\ probe_t' = probe_t
          ELSE pc' = "probe" /\ probe_t' = probe_t + 1
    /\ UNCHANGED <<pageVars, base_swiper_urls, color_elems, idx, capVars, waitVars,
                   cur_urls, saveVars, diskVars, notDaikin>>

\* mutant: the product is processed although the probe saw nothing
OnProbeFalse_Collect == "collect"

\* "if not has_swiper_or_color_quick(driver): ... return"
OnProbeFalse == "done"

\* has_swiper_or_color_quick returns False: the product is skipped
ProbeExpired ==
    /\ pc = "probe"
    /\ probe_t >= ProbeWindow
    /\ pc' = OnProbeFalse
    /\ UNCHANGED <<pageVars, prodVars, capVars, waitVars, cur_urls, saveVars,
                   diskVars, notDaikin>>

\* ensure_dir(output_dir), then the default set is queued under variant 1
BeginProduct(b, n) ==
    /\ base_swiper_urls' = b
    /\ color_elems' = n
    /\ idx' = 0
    /\ IF b # <<>>
       THEN /\ dirs' = dirs \cup {"product", VariantDir(1)}
            /\ variant_idx' = 1
            /\ todo' = b
            /\ seq_i' = 1
            /\ pc' = "save_base"
       ELSE /\ dirs' = dirs \cup {"product"}
            /\ UNCHANGED <<variant_idx, todo, seq_i>>
            /\ pc' = "loop"

Collect ==
    /\ pc = "collect"
    /\ \E b \in Snapshots, n \in 0..MaxColors :
          IF b = <<>> /\ n = 0
          THEN /\ pc' = "recollect"
               /\ UNCHANGED <<base_swiper_urls, color_elems, idx, saveVars, dirs>>
          ELSE BeginProduct(b, n)
    /\ UNCHANGED <<pageVars, probe_t, capVars, waitVars, cur_urls, fs, notDaikin>>

\* the second look after time.sleep(0.8)
Recollect ==
    /\ pc = "recollect"
    /\ \E b \in Snapshots, n \in 0..MaxColors :
          IF b = <<>> /\ n = 0
          THEN /\ pc' = "done"
               /\ UNCHANGED <<base_swiper_urls, color_elems, idx, saveVars, dirs>>
          ELSE BeginProduct(b, n)
    /\ UNCHANGED <<pageVars, probe_t, capVars, waitVars, cur_urls, fs, notDaikin>>

\* one download_image call of either save loop; after the last one the
\* colour loop starts (default set) or goes on with the next control, and the
\* finished iteration's locals are dropped
DownloadStep ==
    /\ pc \in {"save_base", "save_variant"}
    /\ seq_i <= Len(todo)
    /\ \E outcome \in DownloadOutcomes :
          fs' = download_image(fs, todo[seq_i],
                   DestPath(variant_idx, seq_i, guess_ext_from_url(todo[seq_i])),
                   outcome)
    /\ IF seq_i = Len(todo)
       THEN /\ pc' = "loop"
            /\ idx' = IF pc = "save_base" THEN 0 ELSE idx + 1
            /\ todo' = <<>>
            /\ seq_i' = 1
            /\ cur_urls' = <<>>
            /\ quiet' = TRUE
       ELSE /\ seq_i' = seq_i + 1
            /\ UNCHANGED <<pc, idx, todo, cur_urls, quiet>>
    /\ UNCHANGED <<pageVars, probe_t, base_swiper_urls, color_elems, capVars, mode,
                   elapsed, t1, obs, locs, variant_idx, dirs, notDaikin>>

\* head of "for idx in range(len(color_elems))": re-find the controls, capture
\* the location and the snapshot before the click
LoopHead ==
    /\ pc = "loop"
    /\ IF idx >= color_elems
       THEN pc' = "done" /\ UNCHANGED capVars
       ELSE \E elems_now \in 0..MaxColors :
               IF elems_now = 0 \/ idx >= elems_now
               THEN pc' = "done" /\ UNCHANGED capVars
               ELSE /\ pc' = "click"
                    /\ prev_url' = current_url
                    /\ \E p \in Snapshots : prev_swiper_urls' = p
    /\ UNCHANGED <<pageVars, prodVars, waitVars, cur_urls, saveVars, diskVars, notDaikin>>

\* elem.click() of robust_click: it works, raises
\* ElementClickIntercepted/StaleElementReference, or raises something else (as
\* does the scrollIntoView script before it)
ClickOutcomes == {"clicked", "intercepted", "raised"}

\* driver.execute_script("arguments[0].click();", elem) works or raises
ScriptOutcomes == {"clicked", "raised"}

\* where the loop goes when the last script click raised: "continue"
OnTriggerFailed_Wait == "wait"

OnTriggerFailed == "loop"

\* mutant: the click is sent and the loop goes on to the next control
StartWait_NoPoll == pc' = "loop" /\ idx' = idx + 1 /\ UNCHANGED waitVars

\* the click went through: wait_swiper_change is called
StartWait ==
    /\ pc' = "wait"
    /\ mode' = "main"
    /\ elapsed' = 0
    /\ t1' = 0
    /\ quiet' = TRUE
    /\ obs' = <<>>
    /\ locs' = <<>>
    /\ idx' = idx

\* robust_click up to elem.click()
Click ==
    /\ pc = "click"
    /\ \E outcome \in ClickOutcomes :
          CASE outcome = "clicked" -> StartWait
            [] outcome = "intercepted" ->
                 pc' = "js_click" /\ UNCHANGED <<idx, waitVars>>
            [] OTHER ->
                 pc' = "js_retry" /\ UNCHANGED <<idx, waitVars>>
    /\ UNCHANGED <<pageVars, probe_t, base_swiper_urls, color_elems, capVars, cur_urls,
                   saveVars, diskVars, notDaikin>>

\* the script click of robust_click's except branch; when it raises, the
\* exception reaches the caller
ScriptClick ==
    /\ pc = "js_click"
    /\ \E outcome \in ScriptOutcomes :
          IF outcome = "clicked"
          THEN StartWait
          ELSE pc' = "js_retry" /\ UNCHANGED <<idx, waitVars>>
    /\ UNCHANGED <<pageVars, probe_t, base_swiper_urls, color_elems, capVars, cur_urls,
                   saveVars, diskVars, notDaikin>>

\* the script click of the caller's except branch, and "continue" when it raises
ScriptClickRetry ==
    /\ pc = "js_retry"
    /\ \E outcome \in ScriptOutcomes :
          IF outcome = "clicked"
          THEN StartWait
          ELSE /\ pc' = OnTriggerFailed
               /\ idx' = idx + 1
               /\ UNCHANGED waitVars
    /\ UNCHANGED <<pageVars, probe_t, base_swiper_urls, color_elems, capVars, cur_urls,
                   saveVars, diskVars, notDaikin>>

\* -------------------------------------------- daikin: wait_swiper_change
\* mutant: the lists are compared, not the sets
Changed_AsList(now, prev) == now # prev

\* "if now_set != prev_set"
Changed(now, prev) == Range(now) # Range(prev)

\* mutant: nothing is collected when the loop runs out
TimeoutResult_Empty(now) == <<>>

\* "return collect_swiper_image_urls(driver)" after the loop
TimeoutResult(now) == now

Observe(now) == obs' = IF tracing THEN Append(obs, now) ELSE obs

\* one iteration of "while time.time() - t0 < timeout": the page shows `now`
\* at location `loc`
PollMain ==
    /\ pc = "wait"
    /\ mode = "main"
    /\ elapsed < TimeoutTicks
    /\ \E now \in Snapshots, loc \in Locations :
          /\ Observe(now)
          /\ locs' = IF tracing THEN Append(locs, loc) ELSE locs
          /\ current_url' = loc
          /\ quiet' = (quiet /\ ~Changed(now, prev_swiper_urls) /\ loc = prev_url)
          /\ IF Changed(now, prev_swiper_urls)
             THEN /\ cur_urls' = now
                  /\ pc' = "save"
                  /\ UNCHANGED <<mode, elapsed, t1>>
             ELSE /\ UNCHANGED <<cur_urls, pc>>
                  /\ IF loc # prev_url
                     THEN \E ready \in 0..ReadyMax :
                             /\ mode' = "sub"
                             /\ elapsed' = elapsed + ready
                             /\ t1' = elapsed + ready
                     ELSE /\ elapsed' = elapsed + 1
                          /\ UNCHANGED <<mode, t1>>
    /\ UNCHANGED <<prodVars, capVars, saveVars, diskVars, notDaikin>>

\* the loop ran out: the last snapshot is returned
TimeoutMain ==
    /\ pc = "wait"
    /\ mode = "main"
    /\ elapsed >= TimeoutTicks
    /\ \E now \in Snapshots :
          /\ Observe(now)
          /\ quiet' = (quiet /\ ~Changed(now, prev_swiper_urls))
          /\ cur_urls' = TimeoutResult(now)
          /\ pc' = "save"
    /\ UNCHANGED <<pageVars, prodVars, capVars, mode, elapsed, t1, locs, saveVars,
                   diskVars, notDaikin>>

\* one iteration of "while time.time() - t1 < timeout"
PollSub ==
    /\ pc = "wait"
    /\ mode = "sub"
    /\ elapsed - t1 < TimeoutTicks
    /\ \E now \in Snapshots :
          /\ Observe(now)
          /\ IF now # <<>>
             THEN cur_urls' = now /\ pc' = "save" /\ UNCHANGED elapsed
             ELSE elapsed' = elapsed + 1 /\ UNCHANGED <<cur_urls, pc>>
    /\ UNCHANGED <<pageVars, prodVars, capVars, mode, t1, quiet, locs, saveVars,
                   diskVars, notDaikin>>

\* the sub-wait ran out: the last snapshot is returned
TimeoutSub ==
    /\ pc = "wait"
    /\ mode = "sub"
    /\ elapsed - t1 >= TimeoutTicks
    /\ \E now \in Snapshots :
          /\ Observe(now)
          /\ cur_urls' = now
          /\ pc' = "save"
    /\ UNCHANGED <<pageVars, prodVars, capVars, mode, elapsed, t1, quiet, locs,
                   saveVars, diskVars, notDaikin>>

\* after the wait: name the variant, create its directory, queue its images
Save ==
    /\ pc = "save"
    /\ variant_idx' = VariantIndex(idx)
    /\ dirs' = dirs \cup {VariantDir(VariantIndex(idx))}
    /\ IF cur_urls = <<>>
       THEN /\ pc' = "loop"
            /\ idx' = idx + 1
            /\ quiet' = TRUE
            /\ UNCHANGED <<todo, seq_i>>
       ELSE /\ pc' = "save_variant"
            /\ todo' = Dedup(cur_urls)
            /\ seq_i' = 1
            /\ UNCHANGED <<idx, quiet>>
    \* the locals of the wait_swiper_change call that returned are gone
    /\ mode' = "main"
    /\ elapsed' = 0
    /\ t1' = 0
    /\ prev_swiper_urls' = <<>>
    /\ UNCHANGED <<pageVars, probe_t, base_swiper_urls, color_elems, prev_url, obs,
                   locs, cur_urls, fs, notDaikin>>

NextDaikin ==
    \/ Open
    \/ Probe
    \/ ProbeExpired
    \/ Collect
    \/ Recollect
    \/ DownloadStep
    \/ LoopHead
    \/ Click
    \/ ScriptClick
    \/ ScriptClickRetry
    \/ PollMain
    \/ TimeoutMain
    \/ PollSub
    \/ TimeoutSub
    \/ Save

SpecDaikin == InitDaikin /\ [][NextDaikin]_vars

\* ---------------------------------- wait_swiper_change called on its own
\* wait_swiper_change(driver, prev_urls, prev_url_str) right after a click,
\* for every captured snapshot and location
InitDetector ==
    /\ pc = "wait"
    /\ prev_swiper_urls \in Snapshots
    /\ prev_url \in Locations
    /\ current_url = prev_url
    /\ probe_t = 0
    /\ base_swiper_urls = <<>>
    /\ color_elems = 1
    /\ idx = 0
    /\ mode = "main"
    /\ elapsed = 0
    /\ t1 = 0
    /\ cur_urls = <<>>
    /\ variant_idx = 1
    /\ todo = <<>>
    /\ seq_i = 1
    /\ fs = {}
    /\ dirs = {}
    /\ quiet = TRUE
    /\ obs = <<>>
    /\ locs = <<>>
    /\ tracing = TRUE
    /\ DlIdle
    /\ DdIdle
    /\ RestIdle

NextDetector ==
    \/ PollMain
    \/ TimeoutMain
    \/ PollSub
    \/ TimeoutSub

SpecDetector == InitDetector /\ [][NextDetector]_vars

\* ------------------------------------------------- the three download loops
\* largest number of assets in one batch
MaxBatch == 2

\* the asset URLs a batch can hold
DlUrls ==
    { Url("abs", "x", "a", ".jpg"), Url("abs", "y", "a", ".jpg"),
      Url("abs", "x", "c", ""), Url("dslash", "x", "a", ".jpg") }

\* the attribute values a page can hold
RawUrls == DlUrls \cup { Url("rel", "x", "a", ".jpg") }

RECURSIVE RawSeqs(_)
RawSeqs(n) ==
    IF n = 0 THEN {<<>>}
    ELSE LET shorter == RawSeqs(n - 1)
         IN  shorter \cup {Append(r, u) : r \in {q \in shorter : Len(q) = n - 1}, u \in RawUrls}

\* "if u.startswith('//'): u = 'https:' + u" (haier); urljoin does the same for
\* daikin and midea
absolutize(u) == IF u.form = "rel" THEN [u EXCEPT !.form = "abs"] ELSE u

\* the list handed to the download loop: every value made absolute, then the
\* repeated strings dropped (haier "if u not in seen", daikin seen/ordered,
\* midea's set)
final_urls(raw) == Dedup([j \in 1..Len(raw) |-> absolutize(raw[j])])

\* str(n) for the numbers that occur
Str(n) == <<"0", "1", "2", "3", "4", "5", "6", "7", "8", "9">>[n + 1]

\* position of a URL in the order of sorted(img_urls)
UrlRank(u) ==
    CASE u = Url("dslash", "x", "a", ".jpg") -> 1
      [] u = Url("abs", "x", "a", ".jpg") -> 2
      [] u = Url("abs", "x", "c", "") -> 3
      [] OTHER -> 4

IsSorted(s) == \A j, k \in 1..Len(s) : j < k => UrlRank(s[j]) < UrlRank(s[k])

\* haier normalize_url: "//host/..." gets "https:", doubled slashes of the path
\* are folded
normalize_url(u) == [u EXCEPT !.form = "abs"]

\* haier url_filename(url, idx): f"{stem}_{idx}{suffix or '.jpg'}"
url_filename(u, i) == u.stem \o "_" \o Str(i) \o (IF u.ext = "" THEN ".jpg" ELSE u.ext)

\* midea unique_save_path: the URL's basename, or base_<ms><ext or '.jpg'> when
\* a file of that name exists
unique_save_path(fsys, u, ms) ==
    LET fname == u.stem \o u.ext
    IN  IF Exists(fsys, fname)
        THEN u.stem \o "_" \o Str(ms) \o (IF u.ext = "" THEN ".jpg" ELSE u.ext)
        ELSE fname

\* max_attempts = 4 (haier), range(3) (midea), one try (daikin)
MaxAttempts(kind) ==
    CASE kind = "haier" -> 4 [] kind = "midea" -> 3 [] OTHER -> 1

\* How an attempt can end: the body is written, the request fails (exception,
\* timeout, HTTP error status), or writing stops after the file was opened.
AttemptOutcomes == {"saved", "request_failed", "write_failed"}

\* haier: "with open(fpath, 'wb') as f: f.write(resp.body())"
haier_write(fsys, u, dest, outcome) ==
    CASE outcome = "saved" -> WriteFile(fsys, dest, UrlStr(u), TRUE)
      [] outcome = "write_failed" -> WriteFile(fsys, dest, UrlStr(u), FALSE)
      [] OTHER -> fsys

\* midea download: "with open(save_path, 'wb') as f: for chunk in r.iter_content"
midea_write(fsys, u, dest, outcome) ==
    CASE outcome = "saved" -> WriteFile(fsys, dest, UrlStr(u), TRUE)
      [] outcome = "write_failed" -> WriteFile(fsys, dest, UrlStr(u), FALSE)
      [] OTHER -> fsys

InitDl ==
    /\ DaikinIdle
    /\ DdIdle
    /\ RestIdle
    /\ fs = {}
    /\ dl_kind \in {"daikin", "haier", "midea"}
    /\ dl_urls \in {final_urls(raw) : raw \in RawSeqs(MaxBatch)}
    /\ dl_kind = "midea" => IsSorted(dl_urls)
    /\ dl_run = 1
    /\ dl_pc = "next"
    /\ dl_i = 1
    /\ dl_dest = ""
    /\ attempt = 0
    /\ now_ms = 1
    /\ fetches = <<0, 0>>
    /\ gave_up = FALSE
    /\ files1 = {}
    /\ dl_log = {}
    /\ slept = <<>>

\* the position the loop goes to when the asset at i of n was given up
AfterAsset_Abort(i, n) == n + 1

AfterAsset(i, n) == i + 1

\* head of the loop over the assets: the destination is resolved; haier skips
\* an asset whose destination exists
DlResolve ==
    /\ dl_pc = "next"
    /\ dl_i <= Len(dl_urls)
    /\ attempt' = 0
    /\ slept' = <<>>
    /\ LET raw == dl_urls[dl_i]
       IN  CASE dl_kind = "daikin" ->
                  /\ dl_dest' = DestPath(1, dl_i, guess_ext_from_url(raw))
                  /\ dl_pc' = "fetch"
                  /\ UNCHANGED <<dl_i, now_ms>>
             [] dl_kind = "haier" ->
                  /\ dl_dest' = url_filename(normalize_url(raw), dl_i)
                  /\ IF Exists(fs, url_filename(normalize_url(raw), dl_i))
                     THEN dl_pc' = "next" /\ dl_i' = dl_i + 1
                     ELSE dl_pc' = "fetch" /\ dl_i' = dl_i
                  /\ UNCHANGED now_ms
             [] OTHER ->
                  /\ dl_dest' = unique_save_path(fs, raw, now_ms)
                  /\ now_ms' = now_ms + 1
                  /\ dl_pc' = "fetch"
                  /\ UNCHANGED dl_i
    /\ UNCHANGED <<fs, dl_kind, dl_urls, dl_run, fetches, gave_up, files1, dl_log, notDl>>

\* random.random() in thousandths
Jitters == {0, 999}

\* mutant: every retry waits the first delay
backoff_sleep_Flat(a, r) == 200 + (r * 300) \div 1000

\* haier backoff_sleep(attempt) in ms:
\* base[min(attempt, len(base)-1)] + random.random() * 0.3
backoff_sleep(a, r) ==
    LET base == <<200, 600, 1400, 3000>>
        k == IF a < Len(base) - 1 THEN a ELSE Len(base) - 1
    IN  base[k + 1] + (r * 300) \div 1000

\* The sleeps that follow failed attempt a (0-based) of the retry loop.
\* haier: backoff_sleep "if attempt < max_attempts - 1"; midea:
\* time.sleep(1.2 + random.random()) after every failure; daikin: no retry.
SleepsAfter(kind, a) ==
    CASE kind = "haier" ->
           IF a < MaxAttempts(kind) - 1 THEN {<<backoff_sleep(a, r)>> : r \in Jitters}
           ELSE {<<>>}
      [] kind = "midea" -> {<<1200 + r>> : r \in Jitters}
      [] OTHER -> {<<>>}

\* one request of the retry loop and what it leaves on disk
DlAttempt ==
    /\ dl_pc = "fetch"
    /\ fetches' = [fetches EXCEPT ![dl_run] = @ + 1]
    /\ \E outcome \in (IF dl_kind = "daikin" THEN DownloadOutcomes ELSE AttemptOutcomes) :
          /\ fs' = CASE dl_kind = "daikin" ->
                          download_image(fs, dl_urls[dl_i], dl_dest, outcome)
                     [] dl_kind = "haier" ->
                          haier_write(fs, normalize_url(dl_urls[dl_i]), dl_dest, outcome)
                     [] OTHER -> midea_write(fs, dl_urls[dl_i], dl_dest, outcome)
          /\ IF outcome = "saved"
             THEN /\ dl_pc' = "next"
                  /\ dl_i' = dl_i + 1
                  /\ attempt' = 0
                  /\ dl_log' = dl_log \cup {[run |-> dl_run, i |-> dl_i,
                                              attempts |-> attempt + 1, saved |-> TRUE]}
                  /\ UNCHANGED <<gave_up, slept>>
             ELSE /\ \E zz \in SleepsAfter(dl_kind, attempt) : slept' = slept \o zz
                  /\ IF attempt + 1 < MaxAttempts(dl_kind)
                     THEN /\ attempt' = attempt + 1
                          /\ UNCHANGED <<dl_pc, dl_i, gave_up, dl_log>>
                     ELSE /\ dl_pc' = "next"
                          /\ dl_i' = AfterAsset(dl_i, Len(dl_urls))
                          /\ attempt' = 0
                          /\ dl_log' = dl_log \cup {[run |-> dl_run, i |-> dl_i,
                                                      attempts |-> attempt + 1,
                                                      saved |-> FALSE]}
                          /\ gave_up' = (gave_up \/ dl_run = 1)
    /\ UNCHANGED <<dl_kind, dl_urls, dl_run, dl_dest, now_ms, files1, notDl>>

\* the batch is through: the crawler is run again on the same list, once
DlEndRun ==
    /\ dl_pc = "next"
    /\ dl_i > Len(dl_urls)
    /\ IF dl_run = 1
       THEN /\ dl_run' = 2
            /\ dl_i' = 1
            /\ files1' = fs
            /\ UNCHANGED dl_pc
       ELSE /\ dl_pc' = "done"
            /\ UNCHANGED <<dl_run, dl_i, files1>>
    /\ slept' = <<>>
    /\ UNCHANGED <<fs, dl_kind, dl_urls, dl_dest, attempt, now_ms, fetches, gave_up, dl_log,
                   notDl>>

NextDl ==
    \/ DlResolve
    \/ DlAttempt
    \/ DlEndRun

SpecDl == InitDl /\ [][NextDl]_vars

\* ------------------------------------------------ midea: deduplicate_images
\* largest number of image files under root_dir
MaxFiles == 3

\* ahash_threshold
AhashThreshold == 1

\* bits of a fingerprint (hash_size * hash_size)
FpBits == 3

\* An image is [id, fp, band, ratio, decodes]: id stands for its bytes (two
\* files are byte-identical exactly when their ids are equal, and _md5_of_file
\* is taken to be free of collisions), fp is the value of _ahash on it, band is
\* int(size / 50_000), ratio is round(w / h, 2) in hundredths, decodes says
\* whether Image.open accepts the bytes.
Img(i, f, b, r, d) == [id |-> i, fp |-> f, band |-> b, ratio |-> r, decodes |-> d]

Images ==
    { Img(1, 0, 0, 100, TRUE), Img(2, 1, 0, 100, TRUE), Img(3, 3, 1, 100, TRUE),
      Img(4, 7, 0, 100, TRUE), Img(5, 0, 0, 0, FALSE) }

\* A file is [img, readable]: its bytes, and whether open() succeeds on it.
Files == [img : Images, readable : BOOLEAN]

RECURSIVE Trees(_)
Trees(n) ==
    IF n = 0 THEN {<<>>}
    ELSE LET shorter == Trees(n - 1)
         IN  shorter \cup {Append(t, f) : t \in {u \in shorter : Len(u) = n - 1}, f \in Files}

\* _md5_of_file raises on a file that cannot be opened; whether a file can be
\* opened does not change while deduplicate_images runs
Md5Fails_Never(f) == FALSE

Md5Fails(f) == ~f.readable

_md5_of_file(f) == f.img.id

\* Image.open raises on a file that cannot be opened or decoded
OpenFails(f) == ~f.readable \/ ~f.img.decodes

_ahash(f) == f.img.fp

\* (x ^ y).bit_count()
_hamming_distance(x, y) ==
    Cardinality({b \in 0..(FpBits - 1) : ((x \div (2 ^ b)) % 2) # ((y \div (2 ^ b)) % 2)})

\* bin_key of the rough buckets; ("misc", 0) is written <<-1, 0>>
bin_key(f) == IF OpenFails(f) THEN <<-1, 0>> ELSE <<f.img.band, f.img.ratio>>

\* the file stage 1 puts on exact_dups when p has the digest of the kept file
ExactDup_Kept(p, kept) == kept

ExactDup(p, kept) == p

\* "if dist <= ahash_threshold"
IsNear_Strict(dist) == dist < AhashThreshold

\* mutant: one bit more than the threshold still counts as near
IsNear_Wide(dist) == dist <= AhashThreshold + 1

IsNear(dist) == dist <= AhashThreshold

\* "if not is_dup: seen_hashes.append((h_int, p))"
Keep_Forget(seen, h, p) == seen

Keep(seen, h, p) == Append(seen, <<h, p>>)

\* position in the tree of the first remaining file of p's bucket:
\* size_buckets keeps its keys in the order of their first insertion
BucketFirst(t, rem, p) ==
    CHOOSE q \in rem :
        /\ bin_key(t[q]) = bin_key(t[p])
        /\ \A r \in rem : bin_key(t[r]) = bin_key(t[p]) => q <= r

\* the remaining files as "for _, paths in size_buckets.items(): for p in paths"
\* visits them
RECURSIVE BucketOrder(_, _, _)
BucketOrder(t, rem, S) ==
    IF S = {} THEN <<>>
    ELSE LET m == CHOOSE p \in S : \A q \in S \ {p} :
                      \/ BucketFirst(t, rem, p) < BucketFirst(t, rem, q)
                      \/ BucketFirst(t, rem, p) = BucketFirst(t, rem, q) /\ p < q
         IN  <<m>> \o BucketOrder(t, rem, S \ {m})

\* "if not dry_run": the duplicate is only reported
OnlyReport_Off(dry) == FALSE

OnlyReport(dry) == dry

\* os.remove(p) succeeds or raises
RemoveOutcomes == {"removed", "remove_failed"}

InitDedup ==
    /\ DaikinIdle
    /\ DlIdle
    /\ RestIdle
    /\ fs = {}
    /\ tree \in Trees(MaxFiles)
    /\ present = 1..Len(tree)
    /\ do_perceptual \in BOOLEAN
    /\ dry_run \in BOOLEAN
    /\ dd_pc = "md5"
    /\ dd_k = 1
    /\ md5_map = [d \in {i.id : i \in Images} |-> 0]
    /\ exact_dups = <<>>
    /\ order = <<>>
    /\ seen_hashes = <<>>
    /\ rm_failed = FALSE

\* one turn of "for p in all_imgs"; after the last one the removals start
Md5Step ==
    /\ dd_pc = "md5"
    /\ IF dd_k > Len(tree)
       THEN /\ dd_pc' = "rm"
            /\ dd_k' = 1
            /\ UNCHANGED <<md5_map, exact_dups>>
       ELSE /\ dd_k' = dd_k + 1
            /\ UNCHANGED dd_pc
            /\ IF Md5Fails(tree[dd_k])
               THEN UNCHANGED <<md5_map, exact_dups>>
               ELSE LET d == _md5_of_file(tree[dd_k])
                    IN  IF md5_map[d] # 0
                        THEN /\ exact_dups' = Append(exact_dups, ExactDup(dd_k, md5_map[d]))
                             /\ UNCHANGED md5_map
                        ELSE /\ md5_map' = [md5_map EXCEPT ![d] = dd_k]
                             /\ UNCHANGED exact_dups
    /\ UNCHANGED <<tree, present, do_perceptual, dry_run, order, seen_hashes, rm_failed,
                   notDd>>

\* one turn of "for p in exact_dups"; after the last one the function returns,
\* or lists the remaining files and buckets them
RemoveExactStep ==
    /\ dd_pc = "rm"
    /\ IF dd_k > Len(exact_dups)
       THEN /\ dd_k' = 1
            /\ IF do_perceptual
               THEN /\ dd_pc' = "ahash"
                    /\ order' = BucketOrder(tree, present, present)
               ELSE /\ dd_pc' = "done"
                    /\ UNCHANGED order
            /\ UNCHANGED <<present, rm_failed>>
       ELSE /\ dd_k' = dd_k + 1
            /\ UNCHANGED <<dd_pc, order>>
            /\ IF OnlyReport(dry_run)
               THEN UNCHANGED <<present, rm_failed>>
               ELSE \E outcome \in RemoveOutcomes :
                       IF outcome = "removed" /\ exact_dups[dd_k] \in present
                       THEN /\ present' = present \ {exact_dups[dd_k]}
                            /\ UNCHANGED rm_failed
                       ELSE /\ rm_failed' = TRUE
                            /\ UNCHANGED present
    /\ UNCHANGED <<tree, do_perceptual, dry_run, md5_map, exact_dups, seen_hashes, notDd>>

\* the kept fingerprints within the threshold of h
NearKept(seen, h) ==
    {j \in 1..Len(seen) : IsNear(_hamming_distance(h, seen[j][1]))}

\* one turn of the loops over size_buckets
PerceptualStep ==
    /\ dd_pc = "ahash"
    /\ IF dd_k > Len(order)
       THEN /\ dd_pc' = "done"
            /\ dd_k' = 1
            /\ UNCHANGED <<present, seen_hashes, rm_failed>>
       ELSE /\ dd_k' = dd_k + 1
            /\ UNCHANGED dd_pc
            /\ IF OpenFails(tree[order[dd_k]])
               THEN UNCHANGED <<present, seen_hashes, rm_failed>>
               ELSE IF NearKept(seen_hashes, _ahash(tree[order[dd_k]])) # {}
                    THEN /\ UNCHANGED seen_hashes
                         /\ IF OnlyReport(dry_run)
                            THEN UNCHANGED <<present, rm_failed>>
                            ELSE \E outcome \in RemoveOutcomes :
                                    IF outcome = "removed"
                                    THEN /\ present' = present \ {order[dd_k]}
                                         /\ UNCHANGED rm_failed
                                    ELSE /\ rm_failed' = TRUE
                                         /\ UNCHANGED present
                    ELSE /\ seen_hashes' =
                               Keep(seen_hashes, _ahash(tree[order[dd_k]]), order[dd_k])
                         /\ UNCHANGED <<present, rm_failed>>
    /\ UNCHANGED <<tree, do_perceptual, dry_run, md5_map, exact_dups, order, notDd>>

NextDedup ==
    \/ Md5Step
    \/ RemoveExactStep
    \/ PerceptualStep

SpecDedup == InitDedup /\ [][NextDedup]_vars

\* nothing of the crawl, the download batch or the deduplication is running
CrawlIdle == DaikinIdle /\ fs = {} /\ DlIdle /\ DdIdle

\* ------------------------------------------------ the crawlers' main loops
\* number of products in the list
MaxProducts == 3

\* How the processing of one product can end: all saved, the page does not
\* open (driver.get / goto raises), the wait for the page raises a timeout,
\* the capture of the images raises, a download fails.
ProductOutcomes == {"ok", "open_failed", "wait_timeout", "capture_error", "download_failed"}

\* Whether the failure leaves the body of the loop as an exception.
\* daikin: main wraps process_single_product in try/except Exception.
\* haier: main wraps the product in try/except PWTimeoutError/Exception.
\* midea: main calls crawl_one_product bare; crawl_one_product catches only
\* the failure of driver.get, download catches its own failures.
Escapes(kind, outcome) ==
    kind = "midea" /\ outcome \in {"wait_timeout", "capture_error"}

InitMain ==
    /\ CrawlIdle
    /\ DirsIdle
    /\ MoreIdle
    /\ main_kind \in {"daikin", "haier", "midea"}
    /\ main_pc = "loop"
    /\ prod_i = 1
    /\ outcomes = <<>>
    /\ passes = <<>>

\* one turn of the loop over the products
ProcessProduct ==
    /\ main_pc = "loop"
    /\ prod_i <= MaxProducts
    /\ \E outcome \in ProductOutcomes :
          /\ outcomes' = Append(outcomes, outcome)
          /\ IF Escapes(main_kind, outcome)
             THEN main_pc' = "aborted" /\ UNCHANGED prod_i
             ELSE prod_i' = prod_i + 1 /\ UNCHANGED main_pc
    /\ UNCHANGED <<main_kind, passes, crawlVars, dirVars, moreVars>>

\* What follows the loop over the products.  midea: deduplicate_images, then
\* remove_empty_dirs.  daikin and haier: main() has no pass over the tree.
AfterLoop(kind) == IF kind = "midea" THEN "dedup" ELSE "done"

\* the list is through
MainEnd ==
    /\ main_pc = "loop"
    /\ prod_i > MaxProducts
    /\ main_pc' = AfterLoop(main_kind)
    /\ UNCHANGED <<main_kind, prod_i, outcomes, passes, crawlVars, dirVars, moreVars>>

\* deduplicate_images(SAVE_ROOT, do_perceptual=False)
DedupPass ==
    /\ main_pc = "dedup"
    /\ passes' = Append(passes, "dedup")
    /\ main_pc' = "cleanup"
    /\ UNCHANGED <<main_kind, prod_i, outcomes, crawlVars, dirVars, moreVars>>

\* remove_empty_dirs(SAVE_ROOT, remove_root=False)
CleanupPass ==
    /\ main_pc = "cleanup"
    /\ passes' = Append(passes, "cleanup")
    /\ main_pc' = "done"
    /\ UNCHANGED <<main_kind, prod_i, outcomes, crawlVars, dirVars, moreVars>>

NextMain ==
    \/ ProcessProduct
    \/ MainEnd
    \/ DedupPass
    \/ CleanupPass

SpecMain == InitMain /\ [][NextMain]_vars

\* ------------------------------------------------ midea: remove_empty_dirs
\* The directories a tree under root_dir can have, in the order in which
\* os.walk(topdown=False) yields them when all exist: every directory after
\* its subdirectories, root_dir last.
PostOrderAll ==
    << <<"a", "c", "e">>, <<"a", "c">>, <<"a", "d">>, <<"a">>, <<"b">>, <<>> >>

AllDirs == Range(PostOrderAll)

Parent(d) == SubSeq(d, 1, Len(d) - 1)

\* the trees: root_dir exists, and every directory's parent exists
DirTrees ==
    {t \in SUBSET AllDirs : <<>> \in t /\ \A d \in t : d # <<>> => Parent(d) \in t}

\* os.walk(root_dir, topdown=False) over the tree t
WalkOf(t) == SelectSeq(PostOrderAll, LAMBDA d : d \in t)

\* "not os.listdir(dirpath)": no file and no subdirectory
IsEmptyDir_FilesOnly(d, ds, files) == d \notin files

IsEmptyDir(d, ds, files) ==
    d \notin files /\ \A c \in ds : c = <<>> \/ Parent(c) # d

\* os.listdir and os.rmdir succeed, or one of them raises
RmdirOutcomes == {"removed", "rmdir_failed"}

InitDirs ==
    /\ CrawlIdle
    /\ MainIdle
    /\ MoreIdle
    /\ tdirs \in DirTrees
    /\ has_file \in SUBSET tdirs
    /\ walk = WalkOf(tdirs)
    /\ w_i = 1
    /\ remove_root \in BOOLEAN
    /\ rd_pc = "walk"
    /\ rmdir_failed = FALSE

\* one turn of the loop over os.walk
RmdirStep ==
    /\ rd_pc = "walk"
    /\ w_i <= Len(walk)
    /\ w_i' = w_i + 1
    /\ IF IsEmptyDir(walk[w_i], tdirs, has_file)
       THEN IF walk[w_i] = <<>> /\ ~remove_root
            THEN UNCHANGED <<tdirs, rmdir_failed>>
            ELSE \E outcome \in RmdirOutcomes :
                    IF outcome = "removed"
                    THEN tdirs' = tdirs \ {walk[w_i]} /\ UNCHANGED rmdir_failed
                    ELSE rmdir_failed' = TRUE /\ UNCHANGED tdirs
       ELSE UNCHANGED <<tdirs, rmdir_failed>>
    /\ UNCHANGED <<has_file, walk, remove_root, rd_pc, crawlVars, mainVars, moreVars>>

\* os.walk is exhausted
WalkEnd ==
    /\ rd_pc = "walk"
    /\ w_i > Len(walk)
    /\ rd_pc' = "done"
    /\ UNCHANGED <<tdirs, has_file, walk, w_i, remove_root, rmdir_failed, crawlVars, mainVars, moreVars>>

NextDirs ==
    \/ RmdirStep
    \/ WalkEnd

SpecDirs == InitDirs /\ [][NextDirs]_vars

\* ------------------------------- haier: the thumbnail loop of collect_images_in_scope
\* largest number of thumbnails in the scope
MaxThumbs == 2

\* the 20 of "for _ in range(20)", scaled down
SigPollLimit == 2

\* what scope_signature returns; "" when there is no image or evaluate raised
Signatures == {"", "s1", "s2"}

\* what no action of the thumbnail loop changes
notThumbs == <<crawlVars, mainVars, dirVars, listVars, haierVars, totalVars>>

\* "for t in thumbs" is entered with the list JS_GET_SCOPE_THUMBS returned
\* (empty when the call raised)
InitThumbs ==
    /\ CrawlIdle
    /\ MainIdle
    /\ DirsIdle
    /\ ListIdle
    /\ HaierIdle
    /\ TotalIdle
    /\ thumbs \in 0..MaxThumbs
    /\ th_i = 1
    /\ th_pc = "before"
    /\ before = ""
    /\ after = ""
    /\ sig_polls = 0
    /\ th_log = <<>>

\* the iteration over one thumbnail is over; its locals are dropped
EndThumb(clicked, collected) ==
    /\ th_log' = Append(th_log, [clicked |-> clicked, polls |-> sig_polls,
                                 changed |-> (after # "" /\ after # before),
                                 collected |-> collected])
    /\ th_i' = th_i + 1
    /\ th_pc' = "before"
    /\ before' = ""
    /\ after' = ""
    /\ sig_polls' = 0

\* before = scope_signature()
TakeSignature ==
    /\ th_pc = "before"
    /\ th_i <= thumbs
    /\ \E sig \in Signatures : before' = sig
    /\ th_pc' = "click"
    /\ UNCHANGED <<thumbs, th_i, after, sig_polls, th_log, notThumbs>>

\* page.mouse.click(t["x"], t["y"]); when it raises: "except Exception: continue"
ThumbClick ==
    /\ th_pc = "click"
    /\ \E ok \in BOOLEAN :
          IF ok
          THEN th_pc' = "poll" /\ UNCHANGED <<th_i, before, after, sig_polls, th_log>>
          ELSE EndThumb(FALSE, FALSE)
    /\ UNCHANGED <<thumbs, notThumbs>>

\* mutant: an empty signature counts as a change
SigChanged_AnyDiff(sig, b) == sig # b

\* "if after and after != before"
SigChanged(sig, b) == sig # "" /\ sig # b

\* one turn of "for _ in range(20)": polite_pause, after = scope_signature(),
\* "if after and after != before: break"; when the range is through the loop ends
SignaturePoll ==
    /\ th_pc = "poll"
    /\ IF sig_polls < SigPollLimit
       THEN \E sig \in Signatures :
               /\ after' = sig
               /\ sig_polls' = sig_polls + 1
               /\ th_pc' = IF SigChanged(sig, before) THEN "collect" ELSE "poll"
       ELSE th_pc' = "collect" /\ UNCHANGED <<after, sig_polls>>
    /\ UNCHANGED <<thumbs, th_i, before, th_log, notThumbs>>

\* cur = page.evaluate(JS_COLLECT_SCOPE_IMG_URLS, DETAIL_SCOPE); urls.extend(cur or [])
ThumbCollect ==
    /\ th_pc = "collect"
    /\ \E ok \in BOOLEAN : EndThumb(TRUE, ok)
    /\ UNCHANGED <<thumbs, notThumbs>>

\* the list of thumbnails is through
ThumbsEnd ==
    /\ th_pc = "before"
    /\ th_i > thumbs
    /\ th_pc' = "done"
    /\ UNCHANGED <<thumbs, th_i, before, after, sig_polls, th_log, notThumbs>>

NextThumbs ==
    \/ TakeSignature
    \/ ThumbClick
    \/ SignaturePoll
    \/ ThumbCollect
    \/ ThumbsEnd

SpecThumbs == InitThumbs /\ [][NextThumbs]_vars

\* ------------------------------------------- the activations of both crawlers
\* the colour loop of process_single_product (daikin) or the thumbnail loop of
\* collect_images_in_scope (haier), one page session each
InitActivations == InitDaikin \/ InitThumbs

NextActivations == NextDaikin \/ NextThumbs

SpecActivations == InitActivations /\ [][NextActivations]_vars

\* ------------------------------------------- midea: collect_product_links
MAX_ALLOWED_PAGE == 3

\* MAX_PAGES (80 in the source), scaled down
MAX_PAGES == 2

\* A list URL is [page, q]: the value get_page_index reads from it (1 when the
\* page parameter is missing or no number) and the rest of its query; two URLs
\* are the same string exactly when both fields are equal.
ListUrl(n, q) == [page |-> n, q |-> q]

ListUrls == {ListUrl(n, q) : n \in 1..(MAX_ALLOWED_PAGE + 1), q \in {"", "x"}}

\* mutant: the page parameter is not read
get_page_index_Default(u) == 1

get_page_index(u) == u.page

\* _increment_page_url(url, step=1): the other query parameters are kept
_increment_page_url(u) == ListUrl(u.page + 1, u.q)

\* _limit_and_return of find_next_page_url
_limit_and_return(h) ==
    IF h = None \/ get_page_index(h) > MAX_ALLOWED_PAGE THEN None ELSE h

\* the hrefs of the page that pass _limit_and_return (steps 1, 2, 3 and 4)
PassingHrefs == {h \in ListUrls : _limit_and_return(h) # None}

\* step 5: "guess = _increment_page_url(driver.current_url or base_url)"
GuessNext(loc, base_url) ==
    LET out == _limit_and_return(_increment_page_url(loc))
    IN  IF out # None /\ out # base_url THEN out ELSE None

\* What find_next_page_url(driver, base_url) can return with the browser at
\* loc, as <<result, location afterwards, where a click led (None: no
\* click, or a click that did not navigate)>>.  An href that passes is returned
\* before or after the click of step 3; the click leads anywhere, and its
\* target is returned when it passes and is not base_url; step 5 comes last.
find_next_page_url(base_url, loc) ==
    {<<h, loc, None>> : h \in PassingHrefs}
       \cup {<<GuessNext(loc, base_url), loc, None>>}
       \cup UNION { IF _limit_and_return(v) # None /\ v # base_url
                    THEN {<<v, v, v>>}
                    ELSE {<<h, v, v>> : h \in PassingHrefs}
                            \cup {<<GuessNext(v, base_url), v, v>>}
                    : v \in ListUrls \ {loc} }

\* base_no_query, ?page=2, ?page=3 of the supplementary pass
candidates == <<ListUrl(1, ""), ListUrl(2, ""), ListUrl(3, "")>>

\* mutant: a page is visited whether or not it was seen
Unseen_Always(u, seen) == TRUE

\* "cur not in seen_pages", "nxt not in seen_pages", "c_norm not in seen_pages"
Unseen(u, seen) == u \notin seen

\* driver.get and the WebDriverWait after it work, or one of them raises
LoadOutcomes == {"loaded", "raised"}

\* what no action of collect_product_links changes
notList == <<crawlVars, mainVars, dirVars, thumbVars, haierVars, totalVars>>

InitPages ==
    /\ CrawlIdle
    /\ MainIdle
    /\ DirsIdle
    /\ ThumbsIdle
    /\ HaierIdle
    /\ TotalIdle
    /\ start_url \in {ListUrl(1, ""), ListUrl(3, "x"), ListUrl(MAX_ALLOWED_PAGE + 1, "")}
    /\ cur = start_url
    /\ seen_pages = {}
    /\ pages = 0
    /\ lp_pc = "head"
    /\ lp_loc = None
    /\ sp_i = 1
    /\ got = <<>>
    /\ scraped = {}
    /\ nav_last = None

\* head of the while loop and the visit of cur: the page is loaded and its
\* product links are collected; an exception leaves collect_product_links
PageVisit ==
    /\ lp_pc = "head"
    /\ IF cur # None /\ Unseen(cur, seen_pages) /\ pages < MAX_PAGES
          /\ get_page_index(cur) <= MAX_ALLOWED_PAGE
       THEN /\ seen_pages' = seen_pages \cup {cur}
            /\ got' = Append(got, cur)
            /\ lp_loc' = cur
            /\ \E outcome \in LoadOutcomes :
                  IF outcome = "loaded"
                  THEN lp_pc' = "next" /\ scraped' = scraped \cup {cur}
                  ELSE lp_pc' = "aborted" /\ UNCHANGED scraped
       ELSE /\ lp_pc' = "supp"
            /\ UNCHANGED <<seen_pages, got, lp_loc, scraped>>
    /\ UNCHANGED <<start_url, cur, pages, sp_i, nav_last, notList>>

\* nxt = find_next_page_url(driver, cur) and the test that follows
PageFindNext ==
    /\ lp_pc = "next"
    /\ \E r \in find_next_page_url(cur, lp_loc) :
          /\ lp_loc' = r[2]
          /\ nav_last' = IF r[3] # None THEN r[3] ELSE nav_last
          /\ IF r[1] # None /\ Unseen(r[1], seen_pages)
                /\ get_page_index(r[1]) <= MAX_ALLOWED_PAGE
             THEN cur' = r[1] /\ pages' = pages + 1 /\ lp_pc' = "head"
             ELSE lp_pc' = "supp" /\ UNCHANGED <<cur, pages>>
    /\ UNCHANGED <<start_url, seen_pages, sp_i, got, scraped, notList>>

\* one turn of "for c in candidates"; an exception ends the pass
PageSupp ==
    /\ lp_pc = "supp"
    /\ sp_i <= Len(candidates)
    /\ LET c_norm == candidates[sp_i]
       IN  IF Unseen(c_norm, seen_pages) /\ get_page_index(c_norm) <= MAX_ALLOWED_PAGE
           THEN /\ seen_pages' = seen_pages \cup {c_norm}
                /\ got' = Append(got, c_norm)
                /\ lp_loc' = c_norm
                /\ \E outcome \in LoadOutcomes :
                      IF outcome = "loaded"
                      THEN /\ scraped' = scraped \cup {c_norm}
                           /\ sp_i' = sp_i + 1
                           /\ UNCHANGED lp_pc
                      ELSE /\ lp_pc' = "done"
                           /\ UNCHANGED <<scraped, sp_i>>
           ELSE /\ sp_i' = sp_i + 1
                /\ UNCHANGED <<seen_pages, got, lp_loc, scraped, lp_pc>>
    /\ UNCHANGED <<start_url, cur, pages, nav_last, notList>>

\* the candidates are through: sorted(product_links) is returned
PageEnd ==
    /\ lp_pc = "supp"
    /\ sp_i > Len(candidates)
    /\ lp_pc' = "done"
    /\ UNCHANGED <<start_url, cur, seen_pages, pages, lp_loc, sp_i, got, scraped,
                   nav_last, notList>>

NextPages ==
    \/ PageVisit
    \/ PageFindNext
    \/ PageSupp
    \/ PageEnd

SpecPages == InitPages /\ [][NextPages]_vars

\* every step of collect_product_links that can be taken is taken
SpecPagesFair == SpecPages /\ WF_vars(NextPages)

\* --------------------------------------------------------- haier: main
\* MAX_PAGES of the haier crawler (15 in the source), scaled down
HaierMaxPages == 2

\* what page.evaluate(JS_GET_PRODUCT_LINKS) can return: the links of the page
\* without repetition (new Set(urls)); [] when it raises
LinkLists == {l \in SeqsNoDup(ProductUrls, Cardinality(ProductUrls)) : NoDup(l)}

\* How the body of "for product_url in new_links" can end: without exception
\* (download_images_via_api keeps its failed downloads to itself), or with an
\* exception of goto / wait_for_load_state, of the capture, of the download
\* call, or of dpage.close().
HaierOutcomes == {"ok", "goto_failed", "capture_failed", "download_raised", "close_failed"}

\* mutant: the URL is added whatever the outcome
Visited_Always(all, u, outcome) == all \cup {u}

\* "collected_all.add(product_url)" is the last statement of the try block
Visited(all, u, outcome) == IF outcome = "ok" THEN all \cup {u} ELSE all

\* what no action of the haier main loop changes
notHaier == <<crawlVars, mainVars, dirVars, thumbVars, listVars, totalVars>>

InitHaier ==
    /\ CrawlIdle
    /\ MainIdle
    /\ DirsIdle
    /\ ThumbsIdle
    /\ ListIdle
    /\ TotalIdle
    /\ page_index = 1
    /\ collected_all = {}
    /\ links = <<>>
    /\ new_links = <<>>
    /\ nl_i = 1
    /\ hm_pc = "list"
    /\ times = [u \in ProductUrls |-> 0]
    /\ last_outcome = [u \in ProductUrls |-> "none"]

\* the links of the list page are read and those not in collected_all are kept
ListPage ==
    /\ hm_pc = "list"
    /\ \E l \in LinkLists :
          /\ links' = l
          /\ new_links' = SelectSeq(l, LAMBDA u : u \notin collected_all)
    /\ nl_i' = 1
    /\ hm_pc' = "product"
    /\ UNCHANGED <<page_index, collected_all, times, last_outcome, notHaier>>

\* one turn of "for product_url in new_links"
HaierProduct ==
    /\ hm_pc = "product"
    /\ nl_i <= Len(new_links)
    /\ \E outcome \in HaierOutcomes :
          /\ collected_all' = Visited(collected_all, new_links[nl_i], outcome)
          /\ last_outcome' = [last_outcome EXCEPT ![new_links[nl_i]] = outcome]
    /\ times' = [times EXCEPT ![new_links[nl_i]] = @ + 1]
    /\ nl_i' = nl_i + 1
    /\ UNCHANGED <<page_index, links, new_links, hm_pc, notHaier>>

\* the page's products are through: page_index += 1, then the limit is
\* tested and try_next_page moves on or not
NextListPage ==
    /\ hm_pc = "product"
    /\ nl_i > Len(new_links)
    /\ page_index' = page_index + 1
    /\ IF page_index + 1 > HaierMaxPages
       THEN hm_pc' = "done"
       ELSE \E moved \in BOOLEAN : hm_pc' = IF moved THEN "list" ELSE "done"
    /\ UNCHANGED <<collected_all, links, new_links, nl_i, times, last_outcome, notHaier>>

NextHaier ==
    \/ ListPage
    \/ HaierProduct
    \/ NextListPage

SpecHaier == InitHaier /\ [][NextHaier]_vars

\* ------------------------------------------- midea: the image total of main
\* largest number of product links
MaxLinks == 2

\* largest number of image URLs on one product page
MaxImgs == 2

\* what no action of the counting changes
notTotal == <<crawlVars, mainVars, dirVars, thumbVars, listVars, haierVars>>

\* How crawl_one_product gets to its loop: driver.get raises (caught, return
\* 0), the wait for "body" raises (not caught), no image URL is found (return
\* 0), or there are image URLs.
OpenOutcomes == {"get_raised", "wait_raised", "no_images", "images"}

\* "for attempt in range(3)"
DownloadTries == 3

InitTotal ==
    /\ CrawlIdle
    /\ MainIdle
    /\ DirsIdle
    /\ ThumbsIdle
    /\ ListIdle
    /\ HaierIdle
    /\ len_links \in 0..MaxLinks
    /\ link_i = 1
    /\ tl_pc = "main"
    /\ img_n = 0
    /\ img_j = 0
    /\ dl_attempt = 0
    /\ saved = 0
    /\ total_imgs = 0
    /\ files_saved = 0
    /\ reported = <<>>

\* "download(u, sp, referer=url); saved += 1": download returns None on
\* either way out, the counter goes up after it
CountAfter(n, outcome) == n + 1

\* main: "total_imgs += crawl_one_product(driver, link, SAVE_ROOT)" up to the
\* head of the loop over the images
CrawlOneProduct ==
    /\ tl_pc = "main"
    /\ link_i <= len_links
    /\ \E opening \in OpenOutcomes :
          CASE opening = "wait_raised" ->
                 /\ tl_pc' = "aborted"
                 /\ UNCHANGED <<link_i, img_n, img_j, saved, total_imgs>>
            [] opening = "images" ->
                 /\ \E n \in 1..MaxImgs : img_n' = n
                 /\ img_j' = 0
                 /\ saved' = 0
                 /\ tl_pc' = "download"
                 /\ UNCHANGED <<link_i, total_imgs>>
            [] OTHER ->
                 /\ total_imgs' = total_imgs + 0
                 /\ link_i' = link_i + 1
                 /\ UNCHANGED <<tl_pc, img_n, img_j, saved>>
    /\ dl_attempt' = 0
    /\ UNCHANGED <<len_links, files_saved, reported, notTotal>>

\* one attempt of download's retry loop; when download returns, the counter
\* of crawl_one_product moves
DownloadTry ==
    /\ tl_pc = "download"
    /\ img_j < img_n
    /\ \E outcome \in AttemptOutcomes :
          /\ files_saved' = IF outcome = "saved" THEN files_saved + 1 ELSE files_saved
          /\ IF outcome = "saved" \/ dl_attempt + 1 >= DownloadTries
             THEN /\ saved' = CountAfter(saved, outcome)
                  /\ img_j' = img_j + 1
                  /\ dl_attempt' = 0
             ELSE /\ dl_attempt' = dl_attempt + 1
                  /\ UNCHANGED <<saved, img_j>>
    /\ UNCHANGED <<len_links, link_i, tl_pc, img_n, total_imgs, reported, notTotal>>

\* "return saved", added to main's sum
ReturnSaved ==
    /\ tl_pc = "download"
    /\ img_j = img_n
    /\ total_imgs' = total_imgs + saved
    /\ link_i' = link_i + 1
    /\ tl_pc' = "main"
    /\ UNCHANGED <<len_links, img_n, img_j, dl_attempt, saved, files_saved, reported,
                   notTotal>>

\* the print after the loop over the products
PrintTotal ==
    /\ tl_pc = "main"
    /\ link_i > len_links
    /\ reported' = <<total_imgs>>
    /\ tl_pc' = "done"
    /\ UNCHANGED <<len_links, link_i, img_n, img_j, dl_attempt, saved, total_imgs,
                   files_saved, notTotal>>

NextTotal ==
    \/ CrawlOneProduct
    \/ DownloadTry
    \/ ReturnSaved
    \/ PrintTotal

SpecTotal == InitTotal /\ [][NextTotal]_vars

\* ------------------------------------------------------------------ claims
\* the names download_image can be asked to write (not the ".part" siblings)
FinalNames ==
    {DestPath(v, i, e) : v \in 1..(MaxColors + 1), i \in 1..MaxAssets, e \in ImageExts}

\* C1: for a product with a non-empty default set: while the default set is saved, a file that appears holds the URL at the
\* current position and is named variant_001/variant_001_<position>; while the
\* first clicked variant is saved, it is named variant_002/variant_002_<position>.
C1_DefaultAndFirstVariantApart ==
    [][ (pc \in {"save_base", "save_variant"} /\ idx = 0 /\ base_swiper_urls # <<>>)
          => \A e \in fs' \ fs :
                e.complete =>
                   /\ e.url = UrlStr(todo[seq_i])
                   /\ e.name = DestPath(IF pc = "save_base" THEN 1 ELSE 2, seq_i,
                                        guess_ext_from_url(todo[seq_i])) ]_vars

\* C2: a completely written final-named file never changes the asset it holds.
C2_NoSilentOverwrite ==
    [][ \A e \in fs :
           (e.complete /\ e.name \in FinalNames)
              => \A e2 \in fs' : e2.name = e.name => e2.url = e.url ]_vars

\* the polls observed so far fit "A before poll k, B from poll k on"
ScenarioAB(k) ==
    \A i \in 1..Len(obs) :
       IF i < k
       THEN Range(obs[i]) = Range(prev_swiper_urls)
       ELSE Range(obs[i]) # Range(prev_swiper_urls) /\ obs[i] = obs[k]

\* the page stayed at the captured location on every poll before poll k
NoNavigationBefore(k) ==
    \A i \in 1..Len(locs) : i < k => locs[i] = prev_url

\* C5 as claimed: when the snapshot is A before poll k and B from poll k on, k
\* inside the timeout, the call returns B, at poll k or later and within the timeout.
C5_ReturnsBFromIterationK ==
    \A k \in 1..TimeoutTicks :
       (pc = "save" /\ ScenarioAB(k))
          => (Len(obs) >= k /\ cur_urls = obs[k] /\ elapsed <= TimeoutTicks)

\* C5 amended: the same when the location does not change before poll k; the
\* call then returns B at poll k exactly.
C5_ReturnsBWithoutNavigation ==
    \A k \in 1..TimeoutTicks :
       (pc = "save" /\ ScenarioAB(k) /\ NoNavigationBefore(k))
          => (Len(obs) = k /\ cur_urls = obs[k] /\ elapsed = k - 1)

C5_Witness ==
    /\ pc = "save"
    /\ \E k \in 2..TimeoutTicks :
          ScenarioAB(k) /\ NoNavigationBefore(k) /\ Len(obs) = k /\ cur_urls = obs[k]

\* C6: the location changed on the trigger and the assets were empty on every
\* poll before the last one: an empty list is returned only when the budget
\* ran out.
C6_NavigationReturnsNonEmpty ==
    ( /\ pc = "save"
      /\ Len(locs) >= 1
      /\ locs[1] # prev_url
      /\ \A i \in 1..(Len(obs) - 1) : obs[i] = <<>> )
       => (cur_urls # <<>> \/ elapsed >= TimeoutTicks)

\* C7: a call whose polls all saw the captured assets and location stays in
\* the main loop no longer than the timeout, returns at the timeout a list
\* set-equal to the captured one, and the caller queues it as the variant.
C7_TimeoutReturnsLastSnapshot ==
    /\ (pc = "wait" /\ quiet) => (mode = "main" /\ elapsed <= TimeoutTicks)
    /\ (pc = "save" /\ quiet)
          => (elapsed = TimeoutTicks /\ Range(cur_urls) = Range(prev_swiper_urls))
    /\ (pc = "save_variant" /\ quiet)
          => /\ cur_urls # <<>>
             /\ todo = Dedup(cur_urls)
             /\ VariantDir(variant_idx) \in dirs

C7_Witness ==
    /\ pc = "save_variant"
    /\ quiet
    /\ seq_i > 1
    /\ \E e \in fs : e.complete /\ e.url = UrlStr(todo[1])

\* the temporary siblings download_image writes before os.replace
PartNames == {n \o ".part" : n \in FinalNames}

\* C3: in every reachable state of a download batch, whatever the downloader
\* and however its attempts end, a file at a final destination path holds a
\* completely written body.
C3_FinalPathOnlyComplete ==
    \A e \in fs : e.name \notin PartNames => e.complete

\* C4: when the first run fetched every asset of the list once and saved it,
\* the second run over the same list and destination sends no request and
\* leaves the files of the first run as they were.
C4_SecondRunFetchesNothing ==
    (dl_pc = "done" /\ ~gave_up /\ fetches[1] = Len(dl_urls) /\ dl_urls # <<>>)
        => (fetches[2] = 0 /\ fs = files1)

\* stage 1 of deduplicate_images has just ended
Stage1Done ==
    \/ dd_pc = "done" /\ ~do_perceptual
    \/ dd_pc = "ahash" /\ dd_k = 1

AllReadable == \A i \in 1..Len(tree) : tree[i].readable

SameBytes(i, j) == tree[i].img.id = tree[j].img.id

\* C8: after stage 1 (dry_run off, every file readable, every removal
\* succeeded) a file is on disk exactly when no earlier file of the traversal
\* has the same bytes: of each class of byte-identical files the first one
\* survives and no other.
C8_FirstOfEachClassSurvives ==
    (Stage1Done /\ ~dry_run /\ AllReadable /\ ~rm_failed)
        => \A i \in 1..Len(tree) :
              (i \in present) <=> (\A j \in 1..(i - 1) : ~SameBytes(i, j))

\* a class of three byte-identical files around a file of another class
C8_Witness ==
    /\ Stage1Done /\ ~dry_run /\ AllReadable /\ ~rm_failed
    /\ Len(tree) = 3
    /\ SameBytes(1, 3) /\ ~SameBytes(1, 2)
    /\ present = {1, 2}

\* the files stage 2 fingerprints
Fingerprinted(i) == ~OpenFails(tree[i])

Dist(i, j) == _hamming_distance(_ahash(tree[i]), _ahash(tree[j]))

PerceptualDone == dd_pc = "done" /\ do_perceptual /\ ~dry_run /\ ~rm_failed

\* C9: after a run with do_perceptual on and dry_run off in which every
\* removal succeeded, no two surviving fingerprinted files of one bucket are at
\* Hamming distance <= ahash_threshold.
C9_NoNearPairSurvives ==
    PerceptualDone
        => \A i, j \in present :
              (i # j /\ Fingerprinted(i) /\ Fingerprinted(j)
                     /\ bin_key(tree[i]) = bin_key(tree[j]))
                 => Dist(i, j) > AhashThreshold

\* two fingerprinted files of one bucket survive and a third one, not a copy
\* of either, was removed as the near-duplicate of a survivor
C9_Witness ==
    /\ PerceptualDone
    /\ \E i, j \in present, r \in (1..Len(tree)) \ present :
          /\ i # j /\ Fingerprinted(i) /\ Fingerprinted(j) /\ Fingerprinted(r)
          /\ bin_key(tree[i]) = bin_key(tree[j])
          /\ ~SameBytes(r, i) /\ ~SameBytes(r, j)
          /\ Dist(r, i) <= AhashThreshold

C11_EveryProductAttempted ==
    main_pc \in {"done", "aborted"} => Len(outcomes) = MaxProducts

\* the first run over the list has ended
Run1Over == dl_run = 2 \/ dl_pc = "done"

\* C12: when a run over the batch has ended, every asset of the list was
\* attempted in it, whatever became of the assets before it (in the second run
\* haier leaves out the assets whose file exists).
C12_FailedAssetDoesNotStopBatch ==
    /\ Run1Over
          => \A j \in 1..Len(dl_urls) : \E e \in dl_log : e.run = 1 /\ e.i = j
    /\ dl_pc = "done"
          => \A j \in 1..Len(dl_urls) :
                \/ \E e \in dl_log : e.run = 2 /\ e.i = j
                \/ dl_kind = "haier"
                     /\ Exists(fs, url_filename(normalize_url(dl_urls[j]), j))

\* the first asset was given up after its retries and the second one was
\* fetched and saved after it
C12_Witness ==
    /\ Run1Over
    /\ dl_kind \in {"haier", "midea"}
    /\ \E e1, e2 \in dl_log :
          /\ e1.run = 1 /\ e1.i = 1 /\ ~e1.saved
          /\ e2.run = 1 /\ e2.i = 2 /\ e2.saved

\* C13: no asset gets more than 4 fetch attempts, and an asset is given up
\* only after exactly 4 failed attempts.
C13_FourAttempts ==
    \A e \in dl_log : e.attempts <= 4 /\ (~e.saved => e.attempts = 4)

\* C14: within one batch no two assets that went through the fetch loop have
\* the same normalized URL, and no two files hold the same normalized URL.
C14_OneFetchPerNormalizedUrl ==
    (dl_kind = "haier" /\ dl_run = 1)
        => /\ \A e1, e2 \in dl_log :
                 e1.i # e2.i => normalize_url(dl_urls[e1.i]) # normalize_url(dl_urls[e2.i])
           /\ \A e1, e2 \in fs : e1.url = e2.url => e1.name = e2.name

\* the trigger of a variant is running
Triggering == pc \in {"click", "js_click", "js_retry"}

\* C15 as stated: after a failed click the script click is tried once, and
\* when it fails the variant is abandoned: the step after a failed script
\* click goes to the next control.
C15_ScriptClickTriedOnce ==
    [][ (pc \in {"js_click", "js_retry"} /\ pc' # "wait")
           => (pc' = "loop" /\ idx' = idx + 1) ]_vars

\* C15: when the click fails a script click follows (a second one when the
\* first was the one inside robust_click); when the last script click fails
\* nothing is written, the detector is not called, and the loop goes on with
\* the next control of the product; the detector is called for the control
\* only when a click went through.
C15_TriggerFailedContained ==
    [][ Triggering
           => /\ fs' = fs /\ dirs' = dirs /\ cur_urls' = cur_urls
              /\ pc' \in {"wait", "js_click", "js_retry", "loop"}
              /\ pc = "click" => pc' # "loop"
              /\ pc = "js_click" => pc' \in {"wait", "js_retry"}
              /\ pc = "js_retry" => pc' \in {"wait", "loop"}
              /\ pc' = "wait" => idx' = idx
              /\ pc' = "loop" => (idx' = idx + 1 /\ idx' <= color_elems) ]_vars

\* the second control is about to be clicked and no file was written and no
\* variant directory created for the first one: its trigger failed
C15_Witness ==
    /\ pc = "click"
    /\ idx = 1
    /\ base_swiper_urls = <<>>
    /\ fs = {}
    /\ dirs = {"product"}

\* the file at position i of the tree holds a kept digest or fingerprint
OwnsHash(i) ==
    \/ \E d \in DOMAIN md5_map : md5_map[d] = i
    \/ \E j \in 1..Len(seen_hashes) : seen_hashes[j][2] = i

CannotOpen(i) == ~tree[i].readable \/ ~tree[i].img.decodes

\* C16: in every state of deduplicate_images a file whose digest cannot be
\* computed is on disk and owns no digest and no fingerprint, and a file of
\* stage 2 whose fingerprint cannot be computed is on disk and owns no
\* fingerprint.
C16_HashFailedFileStays ==
    /\ \A i \in 1..Len(tree) :
          ~tree[i].readable => (i \in present /\ ~OwnsHash(i))
    /\ \A i \in Range(order) :
          CannotOpen(i)
             => (i \in present /\ \A j \in 1..Len(seen_hashes) : seen_hashes[j][2] # i)

\* the run with both stages is over; two copies of a file that cannot be read
\* and a file that cannot be decoded went through it and are still there
C16_Witness ==
    /\ PerceptualDone
    /\ Len(tree) = 3
    /\ \E i, j \in present :
          /\ i < j /\ SameBytes(i, j)
          /\ ~tree[i].readable /\ ~tree[j].readable
    /\ \E i \in present : tree[i].readable /\ ~tree[i].img.decodes

\* C17: with dry_run on, every file of the tree is on disk in every state of
\* the run, with and without do_perceptual.
C17_DryRunRemovesNothing ==
    dry_run => present = 1..Len(tree)

\* a dry run with do_perceptual is over; it reported an exact duplicate and a
\* near-duplicate that is no copy of a kept file
C17_Witness ==
    /\ dry_run /\ do_perceptual /\ dd_pc = "done"
    /\ exact_dups # <<>>
    /\ \E i \in Range(order), j \in 1..Len(seen_hashes) :
          /\ Fingerprinted(i)
          /\ ~SameBytes(i, seen_hashes[j][2])
          /\ Dist(i, seen_hashes[j][2]) <= AhashThreshold
    /\ present = 1..Len(tree)

\* C20: a file that stage 2 removed has a kept file of its own bucket within
\* the threshold.
C20_RemovedOnlyWithinBucket ==
    PerceptualDone
        => \A i \in Range(order) \ present :
              \E j \in 1..Len(seen_hashes) :
                 /\ bin_key(tree[seen_hashes[j][2]]) = bin_key(tree[i])
                 /\ Dist(i, seen_hashes[j][2]) <= AhashThreshold

\* the names variant_NNN/variant_NNN_MMM.ext with one variant index NNN, a
\* position MMM and a known image extension
SchemeNames ==
    {DestPath(v, i, e) : v \in 1..(MaxColors + 1), i \in 1..(MaxAssets + MaxBatch),
                         e \in ImageExts}

\* C19: every completely written file of a download batch, whichever the
\* crawler, has a name of the scheme.
C19_NamesFollowScheme ==
    \A e \in fs : e.complete => e.name \in SchemeNames

\* d holds a file somewhere at or below it
HoldsFileBelow(d) ==
    \E f \in has_file : Len(f) >= Len(d) /\ SubSeq(f, 1, Len(d)) = d

\* d has neither a file nor an existing subdirectory
EmptyNow(d) == d \notin has_file /\ \A c \in tdirs : c = <<>> \/ Parent(c) # d

\* what remove_empty_dirs guarantees whether or not a removal fails: root_dir
\* stays unless remove_root is on, and no directory with a file at or below it
\* is removed
DirsKept ==
    /\ ~remove_root => <<>> \in tdirs
    /\ \A d \in Range(walk) : HoldsFileBelow(d) => d \in tdirs
    /\ \A d \in tdirs : d # <<>> => Parent(d) \in tdirs

MainTicks == IF Len(locs) = 0 THEN 0 ELSE Len(locs) - 1

\* C21: in a call that went into the sub-wait after a navigation, the ticks
\* slept polling in the main loop and in the sub-wait together never exceed
\* the timeout (the time wait_page_ready took is left out of the sum).
C21_PollingWithinTimeout ==
    (mode = "sub" /\ pc \in {"wait", "save"})
       => MainTicks + (elapsed - t1) <= TimeoutTicks

\* C22: a result the call returns as changed was seen by two polls in a row:
\* the last poll and the one before it observed the same assets.
C22_ReturnedChangeIsStable ==
    (pc = "save" /\ Range(cur_urls) # Range(prev_swiper_urls))
       => /\ Len(obs) >= 2
          /\ obs[Len(obs)] = cur_urls
          /\ obs[Len(obs) - 1] = cur_urls

\* C23: in every crawler, when main() has ended (normally or by an exception
\* out of the loop), deduplicate_images ran exactly once and remove_empty_dirs
\* after it, and both only after every product was processed.
C23_DedupOnceAfterAllDownloads ==
    /\ passes # <<>> => (main_pc \in {"cleanup", "done"} /\ Len(outcomes) = MaxProducts)
    /\ main_pc \in {"done", "aborted"} => passes = <<"dedup", "cleanup">>

\* the trigger of the activation is being sent
Triggering24 == pc \in {"click", "js_click", "js_retry"}

\* daikin: one activation after the other
DaikinSequential ==
    \* the location is captured in the step that leads to the trigger
    /\ (pc # "click" /\ pc' = "click") => (pc = "loop" /\ prev_url' = current_url)
    \* while the trigger is sent nothing is captured, and a trigger that went
    \* through is followed by the poll loop
    /\ Triggering24 => /\ UNCHANGED capVars
                       /\ pc' \in {"click", "js_click", "js_retry", "wait", "loop"}
                       /\ pc \in {"click", "js_click"} => pc' # "loop"
    \* a poll loop starts from a trigger only, with a fresh clock
    /\ (pc # "wait" /\ pc' = "wait")
          => (Triggering24 /\ idx' = idx /\ elapsed' = 0 /\ mode' = "main")
    \* while the poll loop runs there is no capture and no trigger
    /\ pc = "wait" => (pc' \in {"wait", "save"} /\ idx' = idx /\ UNCHANGED capVars)
    \* no poll loop is left running when the next capture or trigger starts
    /\ (pc \in {"loop"} \cup {"click", "js_click", "js_retry"})
          => (mode = "main" /\ elapsed = 0)

\* haier: one thumbnail after the other
HaierSequential ==
    /\ (th_pc # "click" /\ th_pc' = "click") => (th_pc = "before" /\ th_i' = th_i)
    /\ th_pc = "click" => (th_pc' \in {"click", "poll", "before"} /\ before' \in {before, ""})
    /\ (th_pc # "poll" /\ th_pc' = "poll")
          => (th_pc = "click" /\ th_i' = th_i /\ sig_polls' = 0)
    /\ th_pc = "poll" => (th_pc' \in {"poll", "collect"} /\ th_i' = th_i /\ before' = before)
    /\ (th_pc # "before" /\ th_pc' = "before") => (th_pc \in {"click", "collect"} /\ sig_polls' = 0)

ProbeFalse == probe_t >= ProbeWindow

\* nothing was done for the product: no capture, no trigger, no detector call,
\* no download, no directory
Untouched ==
    /\ pc \in {"probe", "done"}
    /\ base_swiper_urls = <<>> /\ color_elems = 0 /\ idx = 0
    /\ mode = "main" /\ elapsed = 0 /\ cur_urls = <<>>
    /\ todo = <<>>
    /\ fs = {}
    /\ dirs = {}

\* C25: the probe returns True at the poll that observes the container or a
\* control, inside the window, and False only once the window has elapsed;
\* after False the product is left without trigger, detector call, download
\* or product directory.
C25_QuickSkip ==
    [][ /\ (pc = "probe" /\ pc' = "collect") => (probe_t < ProbeWindow /\ probe_t' = probe_t)
        /\ (pc = "probe" /\ pc' = "probe") => (probe_t < ProbeWindow /\ probe_t' = probe_t + 1)
        /\ (pc = "probe" /\ pc' \notin {"probe", "collect"})
              => (ProbeFalse /\ pc' = "done")
        /\ ProbeFalse => (Untouched /\ Untouched')
      ]_vars

\* the window elapsed and the product was skipped
C25_Witness == pc = "done" /\ ProbeFalse /\ probe_t = ProbeWindow /\ dirs = {} /\ fs = {}

\* the delays of the comment of backoff_sleep, in ms
BaseDelays == <<200, 600, 1400, 3000>>

\* the asset in hand was saved in this step
SavedNow == \E e \in dl_log' \ dl_log : e.saved

\* the asset in hand was given up in this step
GivenUpNow == \E e \in dl_log' \ dl_log : ~e.saved

\* C26: in download_images_via_api a sleep follows every failed attempt but
\* the fourth and no success; the sleep after failed attempt a (0-based) lasts
\* the a-th base delay plus less than 300 ms, and the sleeps of one asset grow.
C26_BackoffAfterFailedAttempts ==
    [][ (dl_kind = "haier" /\ dl_pc = "fetch")
          => /\ Len(slept) = attempt
             /\ (SavedNow \/ GivenUpNow) => slept' = slept
             /\ GivenUpNow => attempt = 3
             /\ ~(SavedNow \/ GivenUpNow)
                   => /\ attempt < 3
                      /\ Len(slept') = attempt + 1
                      /\ SubSeq(slept', 1, attempt) = slept
                      /\ slept'[attempt + 1] - BaseDelays[attempt + 1] \in 0..299
             /\ \A j, k \in 1..Len(slept') : j < k => slept'[j] < slept'[k]
      ]_vars

\* an asset of the haier batch was given up after four attempts and three sleeps
C26_Witness ==
    /\ dl_kind = "haier"
    /\ dl_pc = "next"
    /\ Len(slept) = 3
    /\ slept[1] = 499 /\ slept[2] = 600
    /\ \E e \in dl_log : e.attempts = 4 /\ ~e.saved

\* j stands for i: the same bytes, or both decodable with fingerprints within
\* the threshold
Represents(j, i) ==
    \/ SameBytes(i, j)
    \/ /\ tree[i].img.decodes /\ tree[j].img.decodes
       /\ Dist(i, j) <= AhashThreshold

\* C27: in every state of deduplicate_images the files kept in stage 2 are on
\* disk, and every removed file has a file on disk with the same bytes or with
\* a fingerprint within ahash_threshold of its own.
C27_RepresentativeSurvives ==
    /\ \A j \in 1..Len(seen_hashes) : seen_hashes[j][2] \in present
    /\ \A i \in (1..Len(tree)) \ present : \E j \in present : Represents(j, i)

\* a copy was removed in stage 1, the file it was a copy of was removed in
\* stage 2 as the near-duplicate of a third file: no file with the copy's bytes
\* is left, the third file stands for both
C27_Witness ==
    /\ PerceptualDone
    /\ \E x, o \in (1..Len(tree)) \ present, keep \in present :
          /\ x # o /\ SameBytes(x, o) /\ ~SameBytes(o, keep)
          /\ \A j \in present : ~SameBytes(x, j)
          /\ Dist(o, keep) = AhashThreshold
          /\ \E j \in 1..Len(seen_hashes) : seen_hashes[j][2] = keep

\* C28: every list page collect_product_links loads with driver.get, and every
\* page whose product links it collects, has a page index of at most
\* MAX_ALLOWED_PAGE; links are collected only from a page just loaded.
C28_OnlyAllowedPagesScraped ==
    /\ \A j \in 1..Len(got) : got[j].page \in 1..MAX_ALLOWED_PAGE
    /\ \A u \in scraped : u.page \in 1..MAX_ALLOWED_PAGE
    /\ scraped \subseteq Range(got)

\* the crawl is over, pages 1 to 3 were scraped, and a click of
\* find_next_page_url had led the browser to a page 4 that was not
C28_Witness ==
    /\ lp_pc = "done"
    /\ {u.page : u \in scraped} = 1..MAX_ALLOWED_PAGE
    /\ nav_last.page = MAX_ALLOWED_PAGE + 1

\* the URLs the browser was at: by driver.get, and by the latest click
Loaded == Range(got) \cup (IF nav_last = None THEN {} ELSE {nav_last})

\* C29 as stated: collect_product_links ends, the main loop goes through at
\* most MAX_PAGES iterations, and no list URL is loaded twice, whether by
\* driver.get or by the click of find_next_page_url.
C29_NoUrlLoadedTwice ==
    /\ NoDup(got)
    /\ nav_last # None => nav_last \notin Range(got)
    /\ pages <= MAX_PAGES

\* the main loop is running
InMainLoop == lp_pc \in {"head", "next"}

\* C29: collect_product_links ends (its result is returned or an exception
\* leaves it); driver.get is never called twice with the same list URL, in the
\* main loop or in the supplementary pass, and every URL it is called with was
\* outside seen_pages; the main loop goes through at most MAX_PAGES iterations.
C29_TerminatesWithoutRevisit ==
    /\ [](/\ NoDup(got)
          /\ Range(got) = seen_pages
          /\ pages <= MAX_PAGES
          /\ InMainLoop => Len(got) <= MAX_PAGES
          /\ (InMainLoop /\ pages = MAX_PAGES) => lp_pc = "head")
    /\ <>(lp_pc \in {"done", "aborted"})

\* the main loop stopped at MAX_PAGES iterations with a next page at hand, and
\* the supplementary pass skipped the two candidates already seen
C29_Witness ==
    /\ lp_pc = "done"
    /\ pages = MAX_PAGES
    /\ cur \notin seen_pages
    /\ cur.page <= MAX_ALLOWED_PAGE
    /\ Len(got) = MAX_PAGES + 1

\* the products processed in this step
ProcessedNow == {u \in ProductUrls : times'[u] # times[u]}

\* C30: a product URL is in collected_all exactly when its latest processing
\* ended without exception; a URL in the set is never processed again and is
\* left out of new_links when a later list page shows it; a URL whose
\* processing raised is outside the set, is put on new_links when a list page
\* shows it, and every URL of new_links is processed.
C30_VisitedOnlyAfterSuccess ==
    [][ /\ \A u \in ProductUrls :
              /\ (u \in collected_all) <=> (last_outcome[u] = "ok")
              /\ (u \in collected_all') <=> (last_outcome'[u] = "ok")
        /\ \A u \in ProcessedNow :
              /\ u \notin collected_all
              /\ hm_pc = "product" /\ u = new_links[nl_i]
              /\ times'[u] = times[u] + 1
        /\ (hm_pc = "list" /\ hm_pc' = "product")
              => \A u \in Range(links') :
                    (u \in Range(new_links')) <=> (u \notin collected_all)
        /\ (hm_pc = "product" /\ nl_i' # nl_i) => new_links[nl_i] \in ProcessedNow
        /\ (hm_pc = "product" /\ hm_pc' # "product") => nl_i > Len(new_links)
      ]_vars

\* on the second list page one product that had failed on the first was
\* processed again and entered the set, and one that had succeeded was shown
\* again and left alone
C30_Witness ==
    /\ hm_pc = "done"
    /\ page_index > 2
    /\ \E u, v \in Range(links) :
          /\ times[u] = 2 /\ last_outcome[u] = "ok" /\ u \in collected_all
          /\ u \in Range(new_links)
          /\ times[v] = 1 /\ v \in collected_all /\ v \notin Range(new_links)

\* C31: the image total the Midea crawler prints equals the number of image
\* files that were saved successfully, also when some downloads fail after
\* all retries.
C31_TotalEqualsSavedFiles == reported # <<>> => reported[1] = files_saved

\* the last poll of the thumbnail at hand saw a signature that is non-empty
\* and differs from the one taken before the click
ChangeSeen == after # "" /\ after # before

\* no more than the limit of polls; polling goes on only while no change was
\* seen; the poll loop is left only on a change or with the polls used up
PollsBounded ==
    /\ sig_polls <= SigPollLimit
    /\ \A n \in 1..Len(th_log) : th_log[n].polls <= SigPollLimit
    /\ th_pc = "poll" => ~ChangeSeen
    /\ th_pc = "collect" => (ChangeSeen \/ sig_polls = SigPollLimit)

\* every thumbnail of the list got its turn
AllThumbsTried == th_pc = "done" => Len(th_log) = thumbs

\* the poll loop is left for the collection only, with or without a change,
\* and the turn of a thumbnail that was clicked ends in the collection
CollectFollowsClick ==
    /\ (th_pc = "poll" /\ th_pc' # "poll") => th_pc' = "collect"
    /\ (Len(th_log') > Len(th_log) /\ th_log'[Len(th_log')].clicked) => th_pc = "collect"

\* a thumbnail whose click or collection raised is followed by the next one
FailureGoesOn ==
    (Len(th_log') > Len(th_log) /\ ~th_log'[Len(th_log')].collected)
        => (th_pc' = "before" /\ th_i' = th_i + 1)

\* C32: in collect_images_in_scope each thumbnail click is followed by at most
\* the limit of signature polls, the poll loop ends at the first poll whose
\* signature is non-empty and differs from the pre-click signature, the
\* images are collected after every click whether or not a change was seen,
\* and a failure on one thumbnail does not keep the remaining thumbnails from
\* being clicked.
C32_ThumbnailLoop ==
    /\ [](PollsBounded /\ AllThumbsTried)
    /\ [][CollectFollowsClick /\ FailureGoesOn]_vars

\* the click on the first thumbnail raised; the second was clicked, polled to
\* the limit without a change, and its images were collected
C32_Witness ==
    /\ th_pc = "done"
    /\ Len(th_log) = 2
    /\ ~th_log[1].clicked
    /\ th_log[2].clicked
    /\ th_log[2].polls = SigPollLimit
    /\ ~th_log[2].changed
    /\ th_log[2].collected

====
